---- MODULE Spec2Model ----
(***************************************************************************)
(* Model of gp_election_db: the election-results loader                    *)
(* (scripts/import_elections.py), the precinct-geometry importer           *)
(* (scripts/import_geometries.py) and the precinct_id writer               *)
(* (scripts/create_precinct_id.py).                                        *)
(*                                                                         *)
(* Seven specifications share the variables:                               *)
(*   Spec          the loader's main(): reset, parallel directory workers, *)
(*                 the coordinator's batch appends, crashes, store errors  *)
(*                 and restarts;                                           *)
(*   SpecGeo       calls of import_precinct_geojson against the committed  *)
(*                 precinct_geometries table;                              *)
(*   SpecRepair    the identifier-repair passes of                         *)
(*                 import_precinct_geojson applied, pass by pass, to one   *)
(*                 input table;                                            *)
(*   SpecMain      __main__ of import_geometries.py: the three vintage     *)
(*                 imports in one try block;                               *)
(*   SpecReshape   process_csv_file applied to one CSV table;              *)
(*   SpecDirectory process_directory: the loop over the files of one       *)
(*                 directory and the concatenation of their frames;        *)
(*   SpecCanon     the precinct_id that process_csv of                     *)
(*                 create_precinct_id.py computes for one row.             *)
(***************************************************************************)
EXTENDS Integers, Sequences, FiniteSets, TLC

VARIABLES
    \* ---- import_elections.py ----
    election_results,  \* persisted table election_results, in insertion order
    next_value,        \* persisted sequence_values.next_value of 'result_id' (0: no row yet)
    pc,                \* the statement of main() the coordinator executes next
    next_id,           \* main()'s local next_id
    results,           \* per directory: the worker's state and the frame it returned
    dirIx,             \* position of the save loop in results (line 519)
    off,               \* offset i of the save loop inside the current frame (line 522)
    fault,             \* how and where the last process ended, and what it left persisted
    runs,              \* number of times the script has been started
    \* ---- import_geometries.py ----
    precinct_geometries, \* committed table precinct_geometries, in insertion order
    lastImport,        \* arguments and row counts of the last import
    tieBreak,          \* which of equally frequent lengths the library's idxmax returns
    astypeNull,        \* what the library's astype(str) makes of a missing value
    \* ---- identifier repair, pass by pass ----
    gdf,               \* the table under repair: rows [precinct_id, tag]
    gdf0,              \* the table as it entered the repair
    stage,             \* the repair pass to run next
    \* ---- import_geometries.py, __main__ ----
    disk,              \* the three GeoJSON files __main__ imports, by position
    mainRun,           \* the import __main__ runs next, and how the script ended
    \* ---- import_elections.py, process_csv_file ----
    csv,               \* the table read from one CSV file
    reshaped,          \* what process_csv_file returned for it
    \* ---- import_elections.py, process_directory ----
    directory,         \* one result directory: its files, in listing order
    dirRun,            \* the loop of process_directory over them
    \* ---- create_precinct_id.py ----
    wp,                \* the ward and precinct values of one row
    canon              \* the precinct_id computed for it

varsE == <<election_results, next_value, pc, next_id, results, dirIx, off, fault, runs>>
varsG == <<precinct_geometries, lastImport, tieBreak, astypeNull>>
varsR == <<gdf, gdf0, stage>>
varsM == <<disk, mainRun>>
varsW == <<csv, reshaped>>
varsD == <<directory, dirRun>>
varsK == <<wp, canon>>
vars == <<election_results, next_value, pc, next_id, results, dirIx, off, fault, runs,
          precinct_geometries, lastImport, tieBreak, astypeNull, gdf, gdf0, stage,
          disk, mainRun, csv, reshaped, directory, dirRun, wp, canon>>

(***************************************************************************)
(* Bounds of the model.                                                    *)
(***************************************************************************)
\* number of numbered result directories under base_dir
NumDirs == 2
\* largest number of rows a directory's combined frame holds
MaxRows == 3
\* CONFIG["batch_size"] (100000 in the source), scaled down so that a frame
\* is appended in several chunks
BatchSize == 2
\* number of times the script is started
MaxRuns == 2

Dirs == 1..NumDirs

\* The values of the variables of a script that a specification leaves alone.
NoMain == [k |-> 0, st |-> "idle", run |-> 0]
NoDirRun == [ix |-> 0, success_count |-> 0, error_count |-> 0, all_results |-> <<>>,
             returned |-> "idle", combined |-> <<>>]
IdleM == disk = <<>> /\ mainRun = NoMain
NoCsv == [cols |-> <<>>, rows |-> <<>>, melt_raises |-> FALSE]
NoSchema == [c \in {} |-> "none"]
NoReshape == [st |-> "idle", cols |-> <<>>, rows |-> <<>>, schema |-> NoSchema,
              log |-> "none", strategy |-> "none", option_cols |-> <<>>]
IdleW == csv = NoCsv /\ reshaped = NoReshape
NoDirectory == [in_metadata |-> FALSE, files |-> <<>>]
IdleD == directory = NoDirectory /\ dirRun = NoDirRun
NoRow == [ward |-> -1, precinct |-> -1]
NoCanon == [st |-> "idle", precinct_id |-> <<>>]
IdleK == wp = NoRow /\ canon = NoCanon

Min2(a, b) == IF a < b THEN a ELSE b

(***************************************************************************)
(* import_elections.py                                                     *)
(***************************************************************************)
\* kind: "none", "crash", "error" or "exit"; at: the statement that did not run;
\* d, i, n, start: the batch being saved, if any, and the first id it was given;
\* nv: the persisted next_value the process left.
NoFault == [kind |-> "none", at |-> "none", d |-> 0, i |-> 0, n |-> 0, start |-> 0, nv |-> 0]

Pending == [st |-> "pending", n |-> 0]

\* Volatile state of a process that is not running.
NoProcess ==
    /\ next_id' = 0
    /\ results' = [d \in Dirs |-> Pending]
    /\ dirIx' = 0
    /\ off' = 0

InitElections ==
    /\ election_results = <<>>
    /\ next_value = 0
    /\ pc = "init_database"
    /\ next_id = 0
    /\ results = [d \in Dirs |-> Pending]
    /\ dirIx = 0
    /\ off = 0
    /\ fault = NoFault
    /\ runs = 1

\* init_database: CREATE TABLE IF NOT EXISTS, and the counter row is inserted
\* only WHERE NOT EXISTS.
InitCounter(nv) == IF nv = 0 THEN 1 ELSE nv

init_database ==
    /\ pc = "init_database"
    /\ next_value' = InitCounter(next_value)
    /\ pc' = "delete"
    /\ UNCHANGED <<election_results, next_id, results, dirIx, off, fault, runs>>
    /\ UNCHANGED <<varsG, varsR, varsM, varsW, varsD, varsK>>

\* main, line 492: DELETE FROM election_results (its own autocommitted statement).
ClearResults ==
    /\ pc = "delete"
    /\ election_results' = <<>>
    /\ pc' = "reset"
    /\ UNCHANGED <<next_value, next_id, results, dirIx, off, fault, runs>>
    /\ UNCHANGED <<varsG, varsR, varsM, varsW, varsD, varsK>>

\* Mutant of ResetValue: the counter is left as it was.
ResetValue_kept(nv) == nv

\* main, line 493: UPDATE sequence_values SET next_value = 1.
ResetValue(nv) == 1

ResetCounter ==
    /\ pc = "reset"
    /\ next_value' = ResetValue(next_value)
    /\ pc' = "read"
    /\ UNCHANGED <<election_results, next_id, results, dirIx, off, fault, runs>>
    /\ UNCHANGED <<varsG, varsR, varsM, varsW, varsD, varsK>>

\* main, line 496: next_id = SELECT next_value.
ReadNextId ==
    /\ pc = "read"
    /\ next_id' = next_value
    /\ pc' = "map"
    /\ UNCHANGED <<election_results, next_value, results, dirIx, off, fault, runs>>
    /\ UNCHANGED <<varsG, varsR, varsM, varsW, varsD, varsK>>

\* A worker that saves the rows of its directory itself.
WorkerReturns_saves(d) ==
    /\ pc = "map"
    /\ results[d].st = "pending"
    /\ \E n \in 1..MaxRows :
          /\ results' = [results EXCEPT ![d] = [st |-> "frame", n |-> n]]
          /\ election_results' = election_results \o
                [k \in 1..n |-> [result_id |-> next_value + k - 1,
                                 election_id |-> d, idx |-> k]]
          /\ next_value' = next_value + n
    /\ UNCHANGED <<pc, next_id, dirIx, off, fault, runs>>
    /\ UNCHANGED <<varsG, varsR, varsM, varsW, varsD, varsK>>

\* process_directory in a pool worker: it returns a combined frame of n >= 1
\* rows, or None (directory not in the metadata, no file succeeded, concat
\* failed, any exception).  Workers finish in any order.
WorkerReturns(d) ==
    /\ pc = "map"
    /\ results[d].st = "pending"
    /\ \E n \in 0..MaxRows :
          results' = [results EXCEPT ![d] =
                         IF n = 0 THEN [st |-> "none", n |-> 0]
                                  ELSE [st |-> "frame", n |-> n]]
    /\ UNCHANGED <<election_results, next_value, pc, next_id, dirIx, off, fault, runs>>
    /\ UNCHANGED <<varsG, varsR, varsM, varsW, varsD, varsK>>

\* main, lines 514-515: list(executor.map(...)) and the end of the with block
\* return once every worker has returned; results is in submission order.
MapDone ==
    /\ pc = "map"
    /\ \A d \in Dirs : results[d].st # "pending"
    /\ dirIx' = 1
    /\ off' = 0
    /\ pc' = "loop"
    /\ UNCHANGED <<election_results, next_value, next_id, results, fault, runs>>
    /\ UNCHANGED <<varsG, varsR, varsM, varsW, varsD, varsK>>

\* Number of rows of the batch the save loop slices at offset i of a frame of
\* n rows (line 523).
BatchLen(n, i) == Min2(BatchSize, n - i)

\* A save loop that ends at the first directory that returned None.
SaveLoop_stopAtNone ==
    /\ pc = "loop"
    /\ IF dirIx > NumDirs \/ results[dirIx].st = "none"
         THEN /\ pc' = "done"
              /\ fault' = [NoFault EXCEPT !.kind = "exit", !.at = "done", !.nv = next_value]
              /\ UNCHANGED <<dirIx, off>>
         ELSE IF off < results[dirIx].n
                THEN /\ pc' = "insert"
                     /\ UNCHANGED <<dirIx, off, fault>>
                ELSE /\ dirIx' = dirIx + 1
                     /\ off' = 0
                     /\ pc' = "loop"
                     /\ UNCHANGED fault
    /\ UNCHANGED <<election_results, next_value, next_id, results, runs>>
    /\ UNCHANGED <<varsG, varsR, varsM, varsW, varsD, varsK>>

\* main, lines 519-523: the next frame, the next batch of it, or the end.
SaveLoop ==
    /\ pc = "loop"
    /\ IF dirIx > NumDirs
         THEN /\ pc' = "done"
              /\ fault' = [NoFault EXCEPT !.kind = "exit", !.at = "done", !.nv = next_value]
              /\ UNCHANGED <<dirIx, off>>
         ELSE IF results[dirIx].st = "frame" /\ off < results[dirIx].n
                THEN /\ pc' = "insert"
                     /\ UNCHANGED <<dirIx, off, fault>>
                ELSE /\ dirIx' = dirIx + 1
                     /\ off' = 0
                     /\ pc' = "loop"
                     /\ UNCHANGED fault
    /\ UNCHANGED <<election_results, next_value, next_id, results, runs>>
    /\ UNCHANGED <<varsG, varsR, varsM, varsW, varsD, varsK>>

\* save_results_to_duckdb, lines 379-382: the ids of the batch.
AssignIds(start, n) == [k \in 1..n |-> start + k - 1]

\* Mutant of BatchRows: the frames are saved in reverse submission order (the
\* frame saved at position d is the one of directory NumDirs + 1 - d).
BatchRows_reverseOrder(d, i, n, start) ==
    [k \in 1..n |-> [result_id |-> start + k - 1,
                     election_id |-> NumDirs + 1 - d,
                     idx |-> i + k]]

\* save_results_to_duckdb, lines 379-399: the rows of the batch, with their
\* ids, are inserted (one autocommitted statement).
BatchRows(d, i, n, start) ==
    [k \in 1..n |-> [result_id |-> AssignIds(start, n)[k],
                     election_id |-> d,
                     idx |-> i + k]]

InsertBatch ==
    /\ pc = "insert"
    /\ LET n == BatchLen(results[dirIx].n, off)
       IN  election_results' = election_results \o BatchRows(dirIx, off, n, next_id)
    /\ pc' = "update"
    /\ UNCHANGED <<next_value, next_id, results, dirIx, off, fault, runs>>
    /\ UNCHANGED <<varsG, varsR, varsM, varsW, varsD, varsK>>

\* Mutants of Advance: one id is skipped; the counter is not advanced.
Advance_gap(start, n) == start + n + 1
Advance_stuck(start, n) == start

\* save_results_to_duckdb, line 402: next_id += num_rows.
Advance(start, n) == start + n

\* save_results_to_duckdb, lines 402-408, and main, lines 524-525: the counter
\* is advanced in memory, written to sequence_values (a second autocommitted
\* statement) and returned; the loop moves to the next offset.
UpdateSequence ==
    /\ pc = "update"
    /\ LET n == BatchLen(results[dirIx].n, off)
       IN  /\ next_id' = Advance(next_id, n)
           /\ next_value' = Advance(next_id, n)
           /\ off' = off + BatchSize
    /\ pc' = "loop"
    /\ UNCHANGED <<election_results, results, dirIx, fault, runs>>
    /\ UNCHANGED <<varsG, varsR, varsM, varsW, varsD, varsK>>

Running == pc \notin {"done", "stopped"}

\* The statements of main() that execute SQL.
StoreSteps == {"init_database", "delete", "reset", "read", "insert", "update"}

\* What a process that ends at pc leaves behind.
FaultAt(kind) ==
    [kind |-> kind, at |-> pc,
     d |-> IF pc \in {"insert", "update"} THEN dirIx ELSE 0,
     i |-> IF pc \in {"insert", "update"} THEN off ELSE 0,
     n |-> IF pc \in {"insert", "update"} THEN BatchLen(results[dirIx].n, off) ELSE 0,
     start |-> IF pc \in {"insert", "update"} THEN next_id ELSE 0,
     nv |-> next_value]

\* The process is killed before the statement at pc runs; what the earlier
\* statements committed stays.
Crash ==
    /\ Running
    /\ fault' = FaultAt("crash")
    /\ pc' = "stopped"
    /\ NoProcess
    /\ UNCHANGED <<election_results, next_value, runs>>
    /\ UNCHANGED <<varsG, varsR, varsM, varsW, varsD, varsK>>

\* The statement at pc raises (store unreachable): the statement has no
\* effect, save_results_to_duckdb re-raises (lines 409-415) and main's handler
\* logs and returns (lines 546-550).
StoreError ==
    /\ pc \in StoreSteps
    /\ fault' = FaultAt("error")
    /\ pc' = "stopped"
    /\ NoProcess
    /\ UNCHANGED <<election_results, next_value, runs>>
    /\ UNCHANGED <<varsG, varsR, varsM, varsW, varsD, varsK>>

\* The script is started again: main() from the top.
Restart ==
    /\ pc \in {"done", "stopped"}
    /\ runs < MaxRuns
    /\ runs' = runs + 1
    /\ pc' = "init_database"
    /\ NoProcess
    /\ UNCHANGED <<election_results, next_value, fault>>
    /\ UNCHANGED <<varsG, varsR, varsM, varsW, varsD, varsK>>

NextElections ==
    \/ init_database
    \/ ClearResults
    \/ ResetCounter
    \/ ReadNextId
    \/ \E d \in Dirs : WorkerReturns(d)
    \/ MapDone
    \/ SaveLoop
    \/ InsertBatch
    \/ UpdateSequence
    \/ Crash
    \/ StoreError
    \/ Restart

(***************************************************************************)
(* Claims about the loader (specification Spec).                           *)
(***************************************************************************)
NumResults == Len(election_results)

\* The process ended, by a crash or a store error, inside an append.
StoppedInAppend(kind) ==
    pc = "stopped" /\ fault.kind = kind /\ fault.at \in {"insert", "update"}

\* C1: whenever the process was killed inside an append, the persisted
\* counter equals 1 plus the number of persisted result rows (rows and counter
\* advance both persisted or both absent).
C1_AppendCrashConsistent ==
    StoppedInAppend("crash") => next_value = NumResults + 1

\* C2: between appends the persisted counter equals the local next_id, the
\* persisted ids are 1, 2, ... in append order without gap or overlap and the
\* counter is the last id plus 1; inside an append of n rows (rows inserted,
\* counter not yet written) the n new rows carry the ids s..s+n-1 where s is
\* the still persisted pre-advance next_value.
C2_ReserveContiguous ==
    /\ pc \in {"loop", "insert", "done"} =>
          /\ next_id = next_value
          /\ next_value = NumResults + 1
          /\ \A k \in 1..NumResults : election_results[k].result_id = k
    /\ pc = "update" =>
          LET n == BatchLen(results[dirIx].n, off)
              m == NumResults - n
          IN  /\ m >= 0
              /\ next_id = next_value
              /\ next_value = m + 1
              /\ \A k \in 1..n : election_results[m + k].result_id = next_value + k - 1
              /\ \A k \in 1..m : election_results[k].result_id = k

\* C2 witness: two consecutive appends have completed (a full first batch of
\* directory 1 and a later batch), and the coordinator is between appends.
C2_TwoAppendsDone ==
    /\ pc = "loop"
    /\ NumResults > BatchSize
    /\ election_results[1].election_id = 1
    /\ next_value = NumResults + 1

\* C3 (as claimed): after a restart that follows at least one reservation, the
\* first reservation of the new process starts at the next_value the previous
\* process left persisted.
C3_ResumesFromPersisted ==
    (runs > 1 /\ pc = "map" /\ fault.nv > 1) => next_id = fault.nv

\* C3 (amended): every start of the script runs the reset before it reads the
\* counter, so after a restart the first reservation starts at 1, whatever the
\* previous process reserved, and the table holds no row of the previous
\* process that the new block could overlap.
C3_RestartStartsFromOne ==
    (runs > 1 /\ pc = "map") =>
        /\ next_id = 1
        /\ next_value = 1
        /\ election_results = <<>>

\* C3 witness: a restarted process has read the counter after a previous
\* process had advanced it.
C3_RestartAfterReserve ==
    runs > 1 /\ pc = "map" /\ fault.nv > 1 /\ next_id = 1

\* C4: in the middle of the reset and right after it, the persisted state is
\* never an empty results table with next_value > 1 nor a non-empty table with
\* next_value = 1, also when the process stopped there.
InReset(p) == p \in {"reset", "read"}

C4_ResetAtomic ==
    (InReset(pc) \/ (pc = "stopped" /\ InReset(fault.at))) =>
        /\ ~(election_results = <<>> /\ next_value > 1)
        /\ ~(election_results # <<>> /\ next_value = 1)

\* C5: when a statement of an append raised, the persisted counter still has
\* the value the batch started from and no row of that batch is persisted.
C5_FailedAppendLeavesNothing ==
    StoppedInAppend("error") =>
        /\ next_value = fault.start
        /\ \A k \in 1..NumResults :
               ~(/\ election_results[k].election_id = fault.d
                 /\ election_results[k].idx > fault.i
                 /\ election_results[k].idx <= fault.i + fault.n)

\* C6: in every state the result_ids in election_results are strictly
\* increasing in append order (hence pairwise distinct).
C6_IdsIncreasing ==
    \A j, k \in 1..NumResults :
        j < k => election_results[j].result_id < election_results[k].result_id

\* C6 witness: a restarted run has appended batches of both directories.
C6_BothDirsAppended ==
    /\ runs > 1
    /\ pc = "done"
    /\ \E j, k \in 1..NumResults :
          /\ j < k
          /\ election_results[j].election_id = 1
          /\ election_results[k].election_id = 2

RowsOfDir(d) == {k \in 1..NumResults : election_results[k].election_id = d}

\* C18: a directory whose worker failed (process_directory catches what is
\* raised and returns None) is recorded as None and stops nothing: when main
\* has run to its end, every directory that returned a frame has all its rows
\* in election_results and a directory that returned None has none, in
\* whatever order the workers returned.
C18_FailedUnitKeepsSiblings ==
    pc = "done" =>
       \A d \in Dirs :
          /\ results[d].st \in {"none", "frame"}
          /\ results[d].st = "none" => RowsOfDir(d) = {}
          /\ results[d].st = "frame" => Cardinality(RowsOfDir(d)) = results[d].n

\* The first directory failed and the rows of the second were appended.
C18_SiblingAppendedAfterFailure ==
    /\ pc = "done"
    /\ results[1].st = "none"
    /\ results[NumDirs].st = "frame"
    /\ Cardinality(RowsOfDir(NumDirs)) = results[NumDirs].n
    /\ results[NumDirs].n > BatchSize

\* C19: while the workers run (pc = "map") neither election_results nor
\* next_value changes; they change only in the coordinator's own statements,
\* and rows are added only by its insert, after every worker has returned,
\* one batch of one directory at a time.
C19_OnlyCoordinatorWrites ==
    [][/\ pc = "map" =>
             /\ election_results' = election_results
             /\ next_value' = next_value
       /\ (election_results' # election_results \/ next_value' # next_value) =>
             pc \in {"init_database", "delete", "reset", "insert", "update"}
       /\ Len(election_results') > Len(election_results) =>
             /\ pc = "insert"
             /\ \A d \in Dirs : results[d].st # "pending"
             /\ Len(election_results') - Len(election_results) <= BatchSize
             /\ SubSeq(election_results', 1, Len(election_results)) = election_results
             /\ \A k \in (Len(election_results) + 1)..Len(election_results') :
                   election_results'[k].election_id = dirIx
      ]_vars

\* One worker has returned a frame while another is still running, and the
\* store is as the coordinator left it before the parallel phase.
C19_WorkersRunning ==
    /\ pc = "map"
    /\ results[1].st = "pending"
    /\ results[NumDirs].st = "frame"
    /\ election_results = <<>>
    /\ next_value = 1
    /\ runs = MaxRuns

(***************************************************************************)
(* import_geometries.py: identifiers are sequences of one-character        *)
(* strings, so that length, padding and prefixes are computed as the code  *)
(* computes them.                                                          *)
(***************************************************************************)
Digits == {"0", "1", "2", "3", "4", "5", "6", "7", "8", "9"}

\* A missing (NaN / None) identifier.
NullId == <<"NULL">>

\* str.isdigit(): a non-empty string of digits.
IsDigit(s) == s # NullId /\ Len(s) > 0 /\ \A i \in 1..Len(s) : s[i] \in Digits

\* str.zfill(w): zeros on the left up to width w.
ZFill(s, w) == IF Len(s) >= w THEN s ELSE [i \in 1..(w - Len(s)) |-> "0"] \o s

DigitChar(d) == <<"0", "1", "2", "3", "4", "5", "6", "7", "8", "9">>[d + 1]

\* str(n) of a non-negative integer.
RECURSIVE NumStr(_)
NumStr(n) == IF n < 10 THEN <<DigitChar(n)>>
             ELSE NumStr(n \div 10) \o <<DigitChar(n % 10)>>

\* f"{n:03d}"
Pad3(n) == ZFill(NumStr(n), 3)

\* lines 33-39: the first of possible_fields that is a column, or "none".
possible_fields == <<"precinct_id", "PRECINCT_ID", "precinct", "PRECINCT", "ID">>

PrecinctIdField(cols) ==
    IF \E k \in 1..Len(possible_fields) : possible_fields[k] \in cols
      THEN possible_fields[CHOOSE k \in 1..Len(possible_fields) :
                              /\ possible_fields[k] \in cols
                              /\ \A j \in 1..(k - 1) : possible_fields[j] \notin cols]
      ELSE "none"

\* A file is [cols: the column names, vals: column -> the values of its rows];
\* the geometry of feature i is i.
NumFeatures(file) == Len(file.vals[CHOOSE c \in file.cols : TRUE])

\* line 56: no direct field and no ward+precinct pair raises ValueError.
HasIdSource(file) ==
    \/ PrecinctIdField(file.cols) # "none"
    \/ {"ward", "precinct"} \subseteq file.cols

\* The text "None".
NoneText == <<"N", "o", "n", "e">>

\* lines 44, 47, 53: Series.astype(str).  Text stays as it is.  A missing
\* value becomes the text "None" where the library keeps text in an object
\* column and stays missing where it keeps it in a string column; nulls says
\* which.
AsStr(v, nulls) == IF v = NullId /\ nulls = "text" THEN NoneText ELSE v

\* lines 41-54: the precinct_id column.
ResolveIds(file, nulls) ==
    LET field == PrecinctIdField(file.cols)
    IN  IF field = "none" /\ "ward" \in file.cols /\ "precinct" \in file.cols
          THEN [i \in 1..NumFeatures(file) |->
                   ZFill(AsStr(file.vals["ward"][i], nulls), 2)
                      \o ZFill(AsStr(file.vals["precinct"][i], nulls), 3)]
          ELSE [i \in 1..NumFeatures(file) |-> AsStr(file.vals[field][i], nulls)]

IdLen(s) == IF s = NullId THEN 0 ELSE Len(s)

CountLen(ids, l) == Cardinality({i \in 1..Len(ids) : IdLen(ids[i]) = l})

\* line 63/67: the lengths that value_counts() ranks highest.
ModalLengths(ids) ==
    {IdLen(ids[i]) : i \in {i \in 1..Len(ids) :
        \A j \in 1..Len(ids) : CountLen(ids, IdLen(ids[j])) <= CountLen(ids, IdLen(ids[i]))}}

FirstSeen(ids, ls) == IdLen(ids[CHOOSE i \in 1..Len(ids) :
                          /\ IdLen(ids[i]) \in ls
                          /\ \A j \in 1..(i - 1) : IdLen(ids[j]) \notin ls])

LastSeen(ids, ls) == IdLen(ids[CHOOSE i \in 1..Len(ids) :
                         /\ IdLen(ids[i]) \in ls
                         /\ \A j \in (i + 1)..Len(ids) : IdLen(ids[j]) \notin ls])

\* line 67: lengths.idxmax(); among equally frequent lengths the library
\* returns the one its sort puts first, which tie says.
IdxMax(ids, tie) ==
    IF tie = "first" THEN FirstSeen(ids, ModalLengths(ids))
                     ELSE LastSeen(ids, ModalLengths(ids))

\* lines 58-69: when some identifier is shorter than 5, all are digits and the
\* most frequent length is 4, every identifier is zfilled to 5.
Normalize(ids, tie) ==
    IF /\ \E i \in 1..Len(ids) : IdLen(ids[i]) < 5
       /\ \A i \in 1..Len(ids) : IsDigit(ids[i])
       /\ IdxMax(ids, tie) = 4
      THEN [i \in 1..Len(ids) |-> ZFill(ids[i], 5)]
      ELSE ids

\* line 75
IsEmptyId(s) == s = NullId \/ s = <<>>

\* A zero test that knows the one-character form only.
IsZeroId_short(s) == s = <<"0">>

\* line 76
IsZeroId(s) == s = <<"0">> \/ s = <<"0", "0", "0", "0", "0">>

\* The value of next_id (lines 84-87, 95-98) when the loop reaches row i: the
\* number of masked rows up to and including i.
EmptyRank(tbl, i) == Cardinality({j \in 1..i : IsEmptyId(tbl[j].precinct_id)})
ZeroRank(tbl, i) == Cardinality({j \in 1..i : IsZeroId(tbl[j].precinct_id)})

\* Mutant of ZeroPrefix: the zeros are renamed from the namespace of the empties.
ZeroPrefix_gen == <<"G", "E", "N">>

\* lines 86 and 97: the prefixes of the generated identifiers.
GenPrefix == <<"G", "E", "N">>
ZeroPrefix == <<"Z", "E", "R", "O">>

\* lines 78-87: the rows of mask0 (taken at line 75) get GEN001, GEN002, ...
\* in row order.
RepairEmpties(tbl, tbl0) ==
    [i \in 1..Len(tbl) |->
        IF IsEmptyId(tbl0[i].precinct_id)
          THEN [tbl[i] EXCEPT !.precinct_id = GenPrefix \o Pad3(EmptyRank(tbl0, i))]
          ELSE tbl[i]]

\* lines 89-98: the rows that were "0" or "00000" at line 76 get ZERO001, ...
RepairZeros(tbl, tbl0) ==
    [i \in 1..Len(tbl) |->
        IF IsZeroId(tbl0[i].precinct_id)
          THEN [tbl[i] EXCEPT !.precinct_id = ZeroPrefix \o Pad3(ZeroRank(tbl0, i))]
          ELSE tbl[i]]

\* Series.duplicated(): the identifier already occurs on an earlier row.
Duplicated(tbl, i) == \E j \in 1..(i - 1) : tbl[j].precinct_id = tbl[i].precinct_id

RECURSIVE KeepFirst(_, _)
KeepFirst(tbl, i) ==
    IF i = 0 THEN <<>>
    ELSE IF Duplicated(tbl, i) THEN KeepFirst(tbl, i - 1)
         ELSE Append(KeepFirst(tbl, i - 1), tbl[i])

\* Mutants of DropDuplicates: nothing is dropped; the last occurrence is kept.
DropDuplicates_none(tbl) == tbl

RECURSIVE KeepLast(_, _)
KeepLast(tbl, i) ==
    IF i = 0 THEN <<>>
    ELSE IF \E j \in (i + 1)..Len(tbl) : tbl[j].precinct_id = tbl[i].precinct_id
           THEN KeepLast(tbl, i - 1)
           ELSE Append(KeepLast(tbl, i - 1), tbl[i])

DropDuplicates_last(tbl) == KeepLast(tbl, Len(tbl))

\* lines 100-121: drop_duplicates(subset=["precinct_id"], keep="first").
DropDuplicates(tbl) == KeepFirst(tbl, Len(tbl))

\* lines 71-121 on a table of [precinct_id, geometry] rows.
RepairIds(tbl) == DropDuplicates(RepairZeros(RepairEmpties(tbl, tbl), tbl))

\* valid_to_year = None
NoYear == -1

RECURSIVE MaxGeometryId(_)
MaxGeometryId(tbl) ==
    IF tbl = <<>> THEN 0
    ELSE LET m == MaxGeometryId(Tail(tbl))
         IN  IF Head(tbl).precinct_geometry_id > m THEN Head(tbl).precinct_geometry_id ELSE m

\* Mutant of StartId: COUNT(*) + 1 in place of MAX + 1.
StartId_count(tbl) == Len(tbl) + 1

\* lines 123-127: COALESCE(MAX(precinct_geometry_id), 0) + 1, read before the
\* vintage's old rows are deleted.
StartId(tbl) == MaxGeometryId(tbl) + 1

\* lines 129-145: the rows to insert.
InsertRows(tbl, start_id, valid_from_year, valid_to_year) ==
    [i \in 1..Len(tbl) |->
        [precinct_geometry_id |-> start_id + i - 1,
         precinct_id |-> tbl[i].precinct_id,
         valid_from_year |-> valid_from_year,
         valid_to_year |-> valid_to_year,
         geometry |-> tbl[i].geometry]]

OfVintage(r, y) == r.valid_from_year = y

\* Mutants of DeleteVintage: nothing is deleted; only the rows of the same
\* year range are deleted.
DeleteVintage_none(tbl, valid_from_year, valid_to_year) == tbl

DeleteVintage_range(tbl, valid_from_year, valid_to_year) ==
    LET Keep(r) == ~(r.valid_from_year = valid_from_year /\ r.valid_to_year = valid_to_year)
    IN  SelectSeq(tbl, Keep)

\* lines 147-166: DELETE FROM precinct_geometries WHERE valid_from_year = Y.
DeleteVintage(tbl, valid_from_year, valid_to_year) ==
    LET Keep(r) == ~OfVintage(r, valid_from_year)
    IN  SelectSeq(tbl, Keep)

\* lines 58-145: the features of a file as rows [precinct_id, geometry], after
\* normalisation and repair.
ImportTable(file, tie, nulls) ==
    LET ids == Normalize(ResolveIds(file, nulls), tie)
    IN  RepairIds([i \in 1..Len(ids) |-> [precinct_id |-> ids[i], geometry |-> i]])

(***************************************************************************)
(* Bound and inputs of SpecGeo.                                            *)
(***************************************************************************)
\* number of imports performed
MaxImports == 3

Id0 == <<"0">>
Id00000 == <<"0", "0", "0", "0", "0">>
Id1001 == <<"1", "0", "0", "1">>
Id01001 == <<"0", "1", "0", "0", "1">>
Id01002 == <<"0", "1", "0", "0", "2">>

\* The GeoJSON files on disk: identifiers that are unique, repeated, short
\* (a dropped leading zero), empty or zero, a zero that the padding turns
\* into five zeros, missing beside a second identifier column, and a file
\* without any identifier column.
GeoPaths == {"unique", "dups", "short", "sentinel", "padded", "nulls", "noid"}

GeoFile(path) ==
    CASE path = "unique" ->
           [cols |-> {"precinct_id"},
            vals |-> [c \in {"precinct_id"} |-> <<Id01001, Id01002>>]]
      [] path = "dups" ->
           [cols |-> {"precinct_id"},
            vals |-> [c \in {"precinct_id"} |-> <<Id01001, Id01001, Id01002>>]]
      [] path = "short" ->
           [cols |-> {"ward", "precinct"},
            vals |-> [c \in {"ward", "precinct"} |->
                         IF c = "ward" THEN <<<<"1">>, <<"1">>>>
                                       ELSE <<Id1001, Id01002>>]]
      [] path = "sentinel" ->
           [cols |-> {"ID"},
            vals |-> [c \in {"ID"} |-> <<<<>>, Id0, Id01001>>]]
      [] path = "padded" ->
           [cols |-> {"PRECINCT"},
            vals |-> [c \in {"PRECINCT"} |-> <<Id0, Id1001, Id1001>>]]
      [] path = "nulls" ->
           [cols |-> {"PRECINCT_ID", "ID"},
            vals |-> [c \in {"PRECINCT_ID", "ID"} |->
                         IF c = "PRECINCT_ID" THEN <<NullId, Id00000, Id01002>>
                                              ELSE <<Id01001, Id01001, Id01001>>]]
      [] OTHER ->
           [cols |-> {"name"},
            vals |-> [c \in {"name"} |-> <<Id01001>>]]

\* The (valid_from_year, valid_to_year) arguments tried: two ranges that are
\* disjoint, two that start in the same year, two that overlap.
YearRanges == {<<2010, 2013>>, <<2010, NoYear>>, <<2014, NoYear>>}

NoImport == [n |-> 0, path |-> "none", valid_from_year |-> 0, valid_to_year |-> 0,
             deleted |-> 0, inserted |-> 0, again |-> FALSE]

\* import_precinct_geojson inside BEGIN TRANSACTION ... COMMIT of __main__
\* (lines 295-299): the table changes as a whole or not at all.
import_precinct_geojson(path, valid_from_year, valid_to_year) ==
    /\ lastImport.n < MaxImports
    /\ HasIdSource(GeoFile(path))
    /\ LET tbl == ImportTable(GeoFile(path), tieBreak, astypeNull)
           start_id == StartId(precinct_geometries)
           rows == InsertRows(tbl, start_id, valid_from_year, valid_to_year)
           kept == DeleteVintage(precinct_geometries, valid_from_year, valid_to_year)
       IN  /\ precinct_geometries' = kept \o rows
           /\ lastImport' =
                 [n |-> lastImport.n + 1, path |-> path,
                  valid_from_year |-> valid_from_year, valid_to_year |-> valid_to_year,
                  deleted |-> Len(precinct_geometries) - Len(kept),
                  inserted |-> Len(rows),
                  again |-> /\ lastImport.inserted > 0
                            /\ lastImport.path = path
                            /\ lastImport.valid_from_year = valid_from_year
                            /\ lastImport.valid_to_year = valid_to_year]
    /\ UNCHANGED <<tieBreak, astypeNull>>
    /\ UNCHANGED <<varsE, varsR, varsM, varsW, varsD, varsK>>

\* line 56 raises ValueError; the handler of __main__ rolls back (lines
\* 373-380) and the table is as before.
ImportRaises(path) ==
    /\ lastImport.n < MaxImports
    /\ ~HasIdSource(GeoFile(path))
    /\ lastImport' = [NoImport EXCEPT !.n = lastImport.n + 1, !.path = path]
    /\ UNCHANGED <<precinct_geometries, tieBreak, astypeNull>>
    /\ UNCHANGED <<varsE, varsR, varsM, varsW, varsD, varsK>>

NextGeo ==
    \/ \E path \in GeoPaths, yr \in YearRanges :
          import_precinct_geojson(path, yr[1], yr[2])
    \/ \E path \in GeoPaths : ImportRaises(path)

InitGeo ==
    /\ election_results = <<>>
    /\ next_value = 0
    /\ pc = "stopped"
    /\ next_id = 0
    /\ results = [d \in Dirs |-> Pending]
    /\ dirIx = 0
    /\ off = 0
    /\ fault = NoFault
    /\ runs = MaxRuns
    /\ precinct_geometries = <<>>
    /\ lastImport = NoImport
    /\ tieBreak \in {"first", "last"}
    /\ astypeNull \in {"text", "missing"}
    /\ gdf = <<>>
    /\ gdf0 = <<>>
    /\ stage = "idle"
    /\ IdleM /\ IdleW /\ IdleD /\ IdleK

SpecGeo == InitGeo /\ [][NextGeo]_vars

(***************************************************************************)
(* Claims about the geometry store (specification SpecGeo).                *)
(***************************************************************************)
NumGeoms == Len(precinct_geometries)

\* The last year of a version; an open-ended version has none.
EndsBefore(r, y) == r.valid_to_year # NoYear /\ r.valid_to_year < y

\* The validity intervals [valid_from_year, valid_to_year] share a year.
Overlap(r1, r2) ==
    /\ ~EndsBefore(r1, r2.valid_from_year)
    /\ ~EndsBefore(r2, r1.valid_from_year)
    /\ ~EndsBefore(r1, r1.valid_from_year)
    /\ ~EndsBefore(r2, r2.valid_from_year)

SameRange(r1, r2) ==
    /\ r1.valid_from_year = r2.valid_from_year
    /\ r1.valid_to_year = r2.valid_to_year

\* For every precinct_id the stored versions are pairwise non-overlapping and
\* at most one is open-ended.
IntervalsConsistent(tbl) ==
    \A j, k \in 1..Len(tbl) :
        (j < k /\ tbl[j].precinct_id = tbl[k].precinct_id) =>
            /\ ~Overlap(tbl[j], tbl[k])
            /\ ~(tbl[j].valid_to_year = NoYear /\ tbl[k].valid_to_year = NoYear)

\* The year ranges present in the table are pairwise disjoint.
RangesDisjoint(tbl) ==
    \A j, k \in 1..Len(tbl) : ~SameRange(tbl[j], tbl[k]) => ~Overlap(tbl[j], tbl[k])

\* C7 (as claimed): after any sequence of imports with arbitrary year
\* arguments, per precinct_id the validity intervals are pairwise
\* non-overlapping and at most one version is open-ended.
C7_IntervalsNeverOverlap == IntervalsConsistent(precinct_geometries)

\* C7 (amended): the import checks no year range against the stored ones; it
\* only replaces the rows with the same valid_from_year and keeps one row per
\* precinct_id of the file.  So whenever the year ranges present in the store
\* are pairwise disjoint, per precinct_id the intervals are pairwise
\* non-overlapping and at most one version is open-ended.
C7_ConsistentWhenRangesDisjoint ==
    RangesDisjoint(precinct_geometries) => IntervalsConsistent(precinct_geometries)

\* C7 witness: after a re-import, one precinct_id has versions in two
\* disjoint vintages.
C7_TwoVintagesOfOnePrecinct ==
    /\ RangesDisjoint(precinct_geometries)
    /\ lastImport.deleted > 0
    /\ \E j, k \in 1..NumGeoms :
          /\ precinct_geometries[j].precinct_id = precinct_geometries[k].precinct_id
          /\ precinct_geometries[j].valid_from_year # precinct_geometries[k].valid_from_year

\* A row without its surrogate id.
Content(r) == [precinct_id |-> r.precinct_id,
               valid_from_year |-> r.valid_from_year,
               valid_to_year |-> r.valid_to_year,
               geometry |-> r.geometry]

Contents(tbl) == [k \in 1..Len(tbl) |-> Content(tbl[k])]

\* The step is an import with the arguments of the import before it.
ImportedAgain == lastImport'.n = lastImport.n + 1 /\ lastImport'.again

\* C8 (as claimed): an import repeated with identical arguments leaves the
\* table with the same rows as the first one left.
C8_ReimportSameRows ==
    [][ImportedAgain => precinct_geometries' = precinct_geometries]_vars

\* C8 (amended): an import repeated with identical arguments leaves the same
\* number of rows and the same precinct_id, valid_from_year, valid_to_year and
\* geometry in every row, with no duplicated version; only the surrogate ids
\* differ, every replaced row getting a new, larger precinct_geometry_id.
C8_ReimportSameContent ==
    [][ImportedAgain =>
          /\ Len(precinct_geometries') = Len(precinct_geometries)
          /\ Contents(precinct_geometries') = Contents(precinct_geometries)
          /\ \A k \in 1..Len(precinct_geometries') :
                OfVintage(precinct_geometries'[k], lastImport'.valid_from_year) =>
                    precinct_geometries'[k].precinct_geometry_id
                        > precinct_geometries[k].precinct_geometry_id]_vars

\* C8 witness: the last import repeated the one before it and replaced its rows.
C8_ImportRepeated ==
    lastImport.again /\ lastImport.deleted > 0 /\ lastImport.deleted = lastImport.inserted

\* The step is a completed import.
Imported == lastImport'.n = lastImport.n + 1 /\ lastImport'.inserted > 0

\* C9: after an import for valid_from_year Y the rows with valid_from_year Y
\* are exactly the rows the import inserted (none of the earlier rows of Y is
\* left, whatever its precinct_id or valid_to_year), and the rows of every
\* other valid_from_year are the same as before, in the same order.
C9_FullVintageReplace ==
    [][Imported =>
          LET Y == lastImport'.valid_from_year
              IsY(r) == OfVintage(r, Y)
              NotY(r) == ~OfVintage(r, Y)
              new == SelectSeq(precinct_geometries', IsY)
          IN  /\ Len(new) = lastImport'.inserted
              /\ \A k \in 1..Len(new) :
                    /\ new[k].valid_to_year = lastImport'.valid_to_year
                    /\ \A j \in 1..Len(precinct_geometries) :
                          new[k].precinct_geometry_id
                              # precinct_geometries[j].precinct_geometry_id
              /\ SelectSeq(precinct_geometries', NotY)
                    = SelectSeq(precinct_geometries, NotY)]_vars

\* C9 witness: the last import replaced rows of its vintage, which had another
\* valid_to_year, while another vintage was stored.
C9_ReplacedBesideOtherVintage ==
    /\ lastImport.deleted > 0
    /\ ~lastImport.again
    /\ \E k \in 1..NumGeoms :
          precinct_geometries[k].valid_from_year # lastImport.valid_from_year

\* C11: whatever the file, no row a vintage import leaves in
\* precinct_geometries carries the identifier "00000", "0", the empty string
\* or a missing value: every row is repaired before it is inserted.
C11_NoSentinelStored ==
    \A k \in 1..NumGeoms :
        precinct_geometries[k].precinct_id \notin {Id00000, Id0, <<>>, NullId}

\* A file whose "0" the padding turned into "00000" was imported and its row
\* is stored under a ZERO identifier.
C11_PaddedZeroRepaired ==
    /\ lastImport.path = "padded"
    /\ lastImport.inserted = 2
    /\ \E k \in 1..NumGeoms :
          /\ precinct_geometries[k].precinct_id = ZeroPrefix \o Pad3(1)
          /\ precinct_geometries[k].geometry = 1

(***************************************************************************)
(* The identifier repair of import_precinct_geojson (lines 71-121), pass   *)
(* by pass, on every table of up to MaxTable rows (specification           *)
(* SpecRepair).  The identifiers are as they leave the normalisation:      *)
(* digit strings, the empty string, a missing value.                       *)
(***************************************************************************)
\* largest number of rows of the table under repair
MaxTable == 5

RepairInputIds == {<<>>, NullId, Id0, Id00000, Id01001, Id01002}

TablesUpTo(n) ==
    UNION {{[i \in 1..k |-> [precinct_id |-> ids[i], geometry |-> i]] :
               ids \in [1..k -> RepairInputIds]} : k \in 1..n}

InitRepair ==
    /\ election_results = <<>>
    /\ next_value = 0
    /\ pc = "stopped"
    /\ next_id = 0
    /\ results = [d \in Dirs |-> Pending]
    /\ dirIx = 0
    /\ off = 0
    /\ fault = NoFault
    /\ runs = MaxRuns
    /\ precinct_geometries = <<>>
    /\ lastImport = NoImport
    /\ tieBreak = "first"
    /\ astypeNull = "text"
    /\ gdf0 \in TablesUpTo(MaxTable)
    /\ gdf = gdf0
    /\ stage = "empties"
    /\ IdleM /\ IdleW /\ IdleD /\ IdleK

\* lines 78-87
FixEmpties ==
    /\ stage = "empties"
    /\ gdf' = RepairEmpties(gdf, gdf0)
    /\ stage' = "zeros"
    /\ UNCHANGED gdf0
    /\ UNCHANGED <<varsE, varsG, varsM, varsW, varsD, varsK>>

\* lines 89-98
FixZeros ==
    /\ stage = "zeros"
    /\ gdf' = RepairZeros(gdf, gdf0)
    /\ stage' = "duplicates"
    /\ UNCHANGED gdf0
    /\ UNCHANGED <<varsE, varsG, varsM, varsW, varsD, varsK>>

\* lines 100-121
RemoveDuplicates ==
    /\ stage = "duplicates"
    /\ gdf' = DropDuplicates(gdf)
    /\ stage' = "done"
    /\ UNCHANGED gdf0
    /\ UNCHANGED <<varsE, varsG, varsM, varsW, varsD, varsK>>

NextRepair ==
    \/ FixEmpties
    \/ FixZeros
    \/ RemoveDuplicates

SpecRepair == InitRepair /\ [][NextRepair]_vars

HasPrefix(s, p) == Len(s) >= Len(p) /\ SubSeq(s, 1, Len(p)) = p

NeedsRepair(s) == IsEmptyId(s) \/ IsZeroId(s)

\* C10: when the three passes are done, (a) every input row whose identifier
\* was empty, missing, "0" or "00000" is still in the table, with an
\* identifier of the GEN namespace (empties) or of the ZERO namespace (zeros)
\* that no input row had; (b) an input row with any other identifier keeps it
\* and survives exactly when no earlier input row had the same identifier;
\* (c) the surviving identifiers are pairwise distinct and the rows are in
\* input order.
C10_RepairThenDedupe ==
    stage = "done" =>
        /\ \A i \in 1..Len(gdf0) :
              NeedsRepair(gdf0[i].precinct_id) =>
                  \E k \in 1..Len(gdf) :
                      /\ gdf[k].geometry = i
                      /\ HasPrefix(gdf[k].precinct_id,
                                   IF IsEmptyId(gdf0[i].precinct_id) THEN GenPrefix
                                                                     ELSE ZeroPrefix)
                      /\ GenPrefix # ZeroPrefix
                      /\ \A j \in 1..Len(gdf0) : gdf0[j].precinct_id # gdf[k].precinct_id
        /\ \A i \in 1..Len(gdf0) :
              ~NeedsRepair(gdf0[i].precinct_id) =>
                  /\ (\E k \in 1..Len(gdf) : gdf[k].geometry = i)
                        <=> ~(\E j \in 1..(i - 1) : gdf0[j].precinct_id = gdf0[i].precinct_id)
                  /\ \A k \in 1..Len(gdf) :
                        gdf[k].geometry = i => gdf[k].precinct_id = gdf0[i].precinct_id
        /\ \A j, k \in 1..Len(gdf) :
              j < k => /\ gdf[j].precinct_id # gdf[k].precinct_id
                       /\ gdf[j].geometry < gdf[k].geometry

\* C10 witness: the table with the identifiers "", "00000", "00000", "01001",
\* "01001" has gone through the three passes and four rows are left.
C10_ExampleRepaired ==
    /\ stage = "done"
    /\ Len(gdf0) = 5
    /\ [i \in 1..5 |-> gdf0[i].precinct_id] = <<<<>>, Id00000, Id00000, Id01001, Id01001>>
    /\ Len(gdf) = 4

(***************************************************************************)
(* import_geometries.py, __main__ (lines 292-380): the three vintage       *)
(* imports, each in its own transaction, inside one try block              *)
(* (specification SpecMain).                                               *)
(***************************************************************************)
\* number of times the script is started
MaxMainRuns == 2

IdleE ==
    /\ election_results = <<>>
    /\ next_value = 0
    /\ pc = "stopped"
    /\ next_id = 0
    /\ results = [d \in Dirs |-> Pending]
    /\ dirIx = 0
    /\ off = 0
    /\ fault = NoFault
    /\ runs = MaxRuns

IdleR == gdf = <<>> /\ gdf0 = <<>> /\ stage = "idle"

\* lines 297, 303-305, 312-314: the year ranges of the three imports.
Vintages == <<<<2010, 2013>>, <<2014, 2021>>, <<2022, NoYear>>>>

NumVintages == Len(Vintages)

\* lines 58-218: the table after import_precinct_geojson has deleted the
\* vintage and inserted the repaired rows of the file.
ImportInto(store, file, valid_from_year, valid_to_year, tie, nulls) ==
    DeleteVintage(store, valid_from_year, valid_to_year)
       \o InsertRows(ImportTable(file, tie, nulls), StartId(store),
                     valid_from_year, valid_to_year)

\* lines 295-299, 301-308, 310-317: BEGIN TRANSACTION, the import, COMMIT.
MainImport ==
    /\ mainRun.st = "running"
    /\ mainRun.k <= NumVintages
    /\ HasIdSource(GeoFile(disk[mainRun.k]))
    /\ precinct_geometries' =
          ImportInto(precinct_geometries, GeoFile(disk[mainRun.k]),
                     Vintages[mainRun.k][1], Vintages[mainRun.k][2],
                     tieBreak, astypeNull)
    /\ mainRun' = [mainRun EXCEPT !.k = @ + 1]
    /\ UNCHANGED <<lastImport, tieBreak, astypeNull, disk>>
    /\ UNCHANGED <<varsE, varsR, varsW, varsD, varsK>>

\* The import raises ValueError (line 56): control leaves the try block for
\* the handler of lines 373-380, which rolls the open transaction back, and
\* the finally clause closes the connection.  The imports that follow in the
\* try block are not run.
MainImportRaises ==
    /\ mainRun.st = "running"
    /\ mainRun.k <= NumVintages
    /\ ~HasIdSource(GeoFile(disk[mainRun.k]))
    /\ mainRun' = [mainRun EXCEPT !.st = "failed"]
    /\ UNCHANGED <<precinct_geometries, lastImport, tieBreak, astypeNull, disk>>
    /\ UNCHANGED <<varsE, varsR, varsW, varsD, varsK>>

\* lines 319-371: the indexes and the report; the table is only read.
MainFinish ==
    /\ mainRun.st = "running"
    /\ mainRun.k > NumVintages
    /\ mainRun' = [mainRun EXCEPT !.st = "done"]
    /\ UNCHANGED <<precinct_geometries, lastImport, tieBreak, astypeNull, disk>>
    /\ UNCHANGED <<varsE, varsR, varsW, varsD, varsK>>

\* The script is started again on the database it left.
MainStart ==
    /\ mainRun.st \in {"done", "failed"}
    /\ mainRun.run < MaxMainRuns
    /\ mainRun' = [k |-> 1, st |-> "running", run |-> mainRun.run + 1]
    /\ UNCHANGED <<precinct_geometries, lastImport, tieBreak, astypeNull, disk>>
    /\ UNCHANGED <<varsE, varsR, varsW, varsD, varsK>>

NextMain == MainImport \/ MainImportRaises \/ MainFinish \/ MainStart

InitMain ==
    /\ IdleE /\ IdleR /\ IdleW /\ IdleD /\ IdleK
    /\ precinct_geometries = <<>>
    /\ lastImport = NoImport
    /\ tieBreak \in {"first", "last"}
    /\ astypeNull \in {"text", "missing"}
    /\ disk \in [1..NumVintages -> GeoPaths]
    /\ mainRun = [k |-> 1, st |-> "running", run |-> 1]

SpecMain == InitMain /\ [][NextMain]_vars

\* The number of imports the run has started.
Attempted == IF mainRun.st = "failed" THEN mainRun.k ELSE mainRun.k - 1

\* C12: a table without an identifier source fails its own import only: when
\* the script has ended, the imports of all the vintages have been attempted.
C12_FailureNotFatalToBatch ==
    mainRun.st \in {"done", "failed"} => Attempted = NumVintages

(***************************************************************************)
(* import_elections.py, process_csv_file (lines 100-295).                  *)
(*                                                                         *)
(* A frame is [cols: the column names in order, rows: one function from    *)
(* column name to cell per row].  Cells are non-negative integers (votes,  *)
(* percentages, ward and precinct numbers, identifiers) or Null, except    *)
(* under option_name, contest_name and election_date, which hold text.     *)
(***************************************************************************)
\* A null cell (None).
Null == -1

Range(sq) == {sq[i] : i \in 1..Len(sq)}

\* A list that leaves option_percent out.
standard_columns_short ==
    <<"result_id", "year", "election_date", "election_id", "contest_id",
      "contest_name", "precinct_id", "ward", "precinct", "total_votes",
      "option_name", "option_votes">>

\* lines 117-131
standard_columns ==
    <<"result_id", "year", "election_date", "election_id", "contest_id",
      "contest_name", "precinct_id", "ward", "precinct", "total_votes",
      "option_name", "option_votes", "option_percent">>

\* line 173: the names that are never voting options.
ReservedColumns ==
    {"precinct_id", "ward", "precinct", "total", "registered", "ballots", "turnout"}

\* line 174: str(col).endswith('Percent'), on the column names of the model.
EndsWithPercent(col) == col \in {"Smith Percent", "Jones Percent", "Percent"}

\* line 204: f"{option} Percent", on the column names of the model.
PercentColumn(option) ==
    CASE option = "Smith" -> "Smith Percent"
      [] option = "Jones" -> "Jones Percent"
      [] option = "Percent" -> "Percent Percent"
      [] OTHER -> "none"

\* What a step of the function yields: a frame, or the exception it raised.
Raised == [st |-> "raised", cols |-> <<>>, rows |-> <<>>]

Frame(cols, rows) == [st |-> "frame", cols |-> cols, rows |-> rows]

Height(f) == Len(f.rows)

\* pl.lit(v) over the rows of f.
Lit(f, v) == [i \in 1..Height(f) |-> v]

\* pl.col(c), evaluated on f.
Col(f, c) == [i \in 1..Height(f) |-> f.rows[i][c]]

\* DataFrame.select(cols): a column that is not there raises.
Select(f, cols) ==
    IF f.st # "frame" \/ ~(Range(cols) \subseteq Range(f.cols)) THEN Raised
    ELSE Frame(cols, [i \in 1..Height(f) |-> [c \in Range(cols) |-> f.rows[i][c]]])

\* DataFrame.with_columns(vals.alias(name)): replaces the column in place or
\* appends it; a series of another length raises.
WithColumn(f, name, vals) ==
    IF f.st # "frame" \/ Len(vals) # Height(f) THEN Raised
    ELSE LET cols == IF name \in Range(f.cols) THEN f.cols ELSE Append(f.cols, name)
         IN  Frame(cols, [i \in 1..Height(f) |->
                             [c \in Range(cols) |->
                                 IF c = name THEN vals[i] ELSE f.rows[i][c]]])

\* with_columns(pl.col(src).alias(name)): the expression is resolved in f.
WithColumnFrom(f, name, src) ==
    IF f.st # "frame" \/ src \notin Range(f.cols) THEN Raised
    ELSE WithColumn(f, name, Col(f, src))

\* pl.concat([a, b]) (vertical): frames whose columns differ raise.
Concat(a, b) ==
    IF a.st # "frame" \/ b.st # "frame" \/ a.cols # b.cols THEN Raised
    ELSE Frame(a.cols, a.rows \o b.rows)

\* DataFrame.rename({old: new})
Rename(f, old, new) ==
    IF f.st # "frame" \/ old \notin Range(f.cols) THEN Raised
    ELSE LET cols == [k \in 1..Len(f.cols) |-> IF f.cols[k] = old THEN new ELSE f.cols[k]]
         IN  Frame(cols, [i \in 1..Height(f) |->
                             [c \in Range(cols) |->
                                 IF c = new THEN f.rows[i][old] ELSE f.rows[i][c]]])

\* lines 186-193: df.melt: for each value column in turn, one row per input
\* row, carrying the id columns, the column's name and the cell.
Melt(f, id_vars, value_vars) ==
    LET n == Height(f)
        cols == id_vars \o <<"option_name", "option_votes">>
    IN  Frame(cols,
              [j \in 1..(n * Len(value_vars)) |->
                  LET v == value_vars[((j - 1) \div n) + 1]
                      i == ((j - 1) % n) + 1
                  IN  [c \in Range(cols) |->
                          IF c = "option_name" THEN v
                          ELSE IF c = "option_votes" THEN f.rows[i][v]
                          ELSE f.rows[i][c]]])

\* A join that returns its rows in the order of the right frame.
RECURSIVE JoinColumn_byRight(_, _, _, _)
JoinColumn_byRight(left, right, col, i) ==
    IF i > Height(right) THEN <<>>
    ELSE LET match == SelectSeq(left.rows,
                         LAMBDA r : r["precinct_id"] = right.rows[i]["precinct_id"])
         IN  [k \in 1..Len(match) |-> right.rows[i][col]]
                \o JoinColumn_byRight(left, right, col, i + 1)

\* line 212: results_df.join(percent_df, on="precinct_id")[percent_col]: an
\* inner join; each row of the left frame, in the order of the left frame,
\* once per row of the right frame with its precinct_id.
RECURSIVE JoinColumn(_, _, _, _)
JoinColumn(left, right, col, i) ==
    IF i > Height(left) THEN <<>>
    ELSE LET match == SelectSeq(right.rows,
                         LAMBDA r : r["precinct_id"] = left.rows[i]["precinct_id"]
                                    /\ r["precinct_id"] # Null)
         IN  [k \in 1..Len(match) |-> match[k][col]]
                \o JoinColumn(left, right, col, i + 1)

\* What process_csv_file returns: None (with the message it logged) or a
\* frame.  strategy and option_cols record the branch of line 136 the call
\* took and the option columns of line 172 it found.
ReturnNone(log) ==
    [st |-> "none", cols |-> <<>>, rows |-> <<>>, schema |-> NoSchema, log |-> log,
     strategy |-> "none", option_cols |-> <<>>]

ReturnFrame(f, schema) ==
    [st |-> "frame", cols |-> f.cols, rows |-> f.rows, schema |-> schema,
     log |-> "processed", strategy |-> "none", option_cols |-> <<>>]

\* The arguments election_id, year, election_date, contest_id, contest_name
\* of the call (line 100), of which the file id varies, and the placeholder
\* of line 274.
Metadata(contest_id) ==
    [year |-> 2020, election_date |-> "2020-11-03", election_id |-> 1,
     contest_id |-> contest_id, contest_name |-> "Mayor", result_id |-> -1]

\* A test that takes either column for the registration/turnout case.
IsTurnout_either(cols) == "registered" \in Range(cols) \/ "turnout" \in Range(cols)

\* line 136: the registration/turnout case.
IsTurnout(cols) == "registered" \in Range(cols) /\ "turnout" \in Range(cols)

\* lines 137-161.  The names ward_col, precinct_col and total_col are not
\* assigned on this path.
TurnoutBranch(df) ==
    LET r0 == Select(df, <<"precinct_id", "ward", "precinct", "registered">>)
        r1 == WithColumn(r0, "option_name", Lit(r0, "registered"))
        r2 == WithColumnFrom(r1, "option_votes", "registered")
        r3 == WithColumn(r2, "option_percent", Lit(r2, Null))
        registered_df == WithColumn(r3, "total_votes", Lit(r3, Null))
        b0 == Select(df, <<"precinct_id", "ward", "precinct", "ballots">>)
        b1 == WithColumn(b0, "option_name", Lit(b0, "ballots"))
        b2 == WithColumnFrom(b1, "option_votes", "ballots")
        \* line 155: pl.col("turnout") is resolved in ballots_df
        b3 == WithColumnFrom(b2, "option_percent", "turnout")
        ballots_df == WithColumn(b3, "total_votes", Lit(b3, Null))
    IN  [results_df |-> Concat(registered_df, ballots_df), returned |-> FALSE,
         log |-> "none", assigned |-> FALSE,
         ward_col |-> "None", precinct_col |-> "None", total_col |-> "None"]

\* lines 172-174
OptionCols(cols) ==
    SelectSeq(cols, LAMBDA col : col \notin ReservedColumns /\ ~EndsWithPercent(col))

\* lines 203-214, for the options from position k on: where the frame has the
\* column "<option> Percent", the rows of that option take its joined values.
RECURSIVE AddPercents(_, _, _, _)
AddPercents(results_df, df, option_cols, k) ==
    IF k > Len(option_cols) \/ results_df.st # "frame" THEN results_df
    ELSE LET option == option_cols[k]
             percent_col == PercentColumn(option)
         IN  IF percent_col \notin Range(df.cols)
               THEN AddPercents(results_df, df, option_cols, k + 1)
               ELSE LET percent_df == Select(df, <<"precinct_id", percent_col>>)
                        joined == JoinColumn(results_df, percent_df, percent_col, 1)
                        vals == [i \in 1..Height(results_df) |->
                                   IF results_df.rows[i]["option_name"] = option
                                     THEN joined[i]
                                     ELSE results_df.rows[i]["option_percent"]]
                    IN  IF Len(joined) # Height(results_df) THEN Raised
                        ELSE AddPercents(WithColumn(results_df, "option_percent", vals),
                                         df, option_cols, k + 1)

\* lines 163-214
OptionsBranch(df, melt_raises) ==
    LET ward_col == IF "ward" \in Range(df.cols) THEN "ward" ELSE "None"
        precinct_col == IF "precinct" \in Range(df.cols) THEN "precinct" ELSE "None"
        total_col == IF "total" \in Range(df.cols) THEN "total" ELSE "None"
        option_cols == OptionCols(df.cols)
        id_vars == <<"precinct_id">>
                      \o (IF ward_col # "None" THEN <<ward_col>> ELSE <<>>)
                      \o (IF precinct_col # "None" THEN <<precinct_col>> ELSE <<>>)
                      \o (IF total_col # "None" THEN <<total_col>> ELSE <<>>)
        melted == Melt(df, id_vars, option_cols)
        with_percent == WithColumn(melted, "option_percent", Lit(melted, Null))
        env == [results_df |-> Raised, returned |-> TRUE, log |-> "none", assigned |-> TRUE,
                ward_col |-> ward_col, precinct_col |-> precinct_col,
                total_col |-> total_col]
    IN  IF option_cols = <<>> THEN [env EXCEPT !.log = "no option columns"]
        ELSE IF melt_raises THEN [env EXCEPT !.log = "melt failed"]
        ELSE [env EXCEPT !.returned = FALSE,
                         !.results_df = AddPercents(with_percent, df, option_cols, 1)]

\* lines 231-247: a null becomes 0; the first run of digits of the text of
\* any other cell is the cell itself, the cells being non-negative integers.
CoerceInt(v) == IF v = Null THEN 0 ELSE v

\* lines 251-265: a null becomes 0.0; the percentages of the model are whole
\* numbers, which the pattern gives back.
CoerceFloat(v) == IF v = Null THEN 0 ELSE v

CoerceColumn(f, c) ==
    IF f.st # "frame" \/ c \notin Range(f.cols) THEN f
    ELSE WithColumn(f, c, [i \in 1..Height(f) |->
                              IF c = "option_percent" THEN CoerceFloat(f.rows[i][c])
                                                      ELSE CoerceInt(f.rows[i][c])])

\* lines 278-285: the columns of names that the frame lacks, each filled with
\* the value given for it.
RECURSIVE AddMissing(_, _, _, _)
AddMissing(f, names, value, k) ==
    IF k > Len(names) \/ f.st # "frame" THEN f
    ELSE IF names[k] \in Range(f.cols) THEN AddMissing(f, names, value, k + 1)
    ELSE AddMissing(WithColumn(f, names[k], Lit(f, value[names[k]])), names, value, k + 1)

MetadataColumns ==
    <<"year", "election_date", "election_id", "contest_id", "contest_name", "result_id">>

\* lines 216-288, on the frame and the names the branch left.
Standardize(env, contest_id) ==
    IF ~env.assigned THEN Raised    \* line 217 reads total_col
    ELSE LET f == env.results_df
             t == IF env.total_col # "None" THEN Rename(f, env.total_col, "total_votes")
                  ELSE WithColumn(f, "total_votes", Lit(f, Null))
             w == IF env.ward_col = "None" THEN WithColumn(t, "ward", Lit(t, Null)) ELSE t
             p == IF env.precinct_col = "None" THEN WithColumn(w, "precinct", Lit(w, Null))
                  ELSE w
             c == CoerceColumn(CoerceColumn(CoerceColumn(p, "option_votes"),
                                            "total_votes"), "option_percent")
             m == AddMissing(c, MetadataColumns, Metadata(contest_id), 1)
             s == AddMissing(m, standard_columns,
                             [n \in Range(standard_columns) |-> Null], 1)
         IN  Select(s, standard_columns)

\* The column types of the frame returned.  The cells read from a CSV file
\* are integers (Int64); ward and precinct keep that type when the file has
\* them and are text nulls (lines 221-225) when it has not; the vote counts
\* are cast to Int32 (line 244) and the percentage to Float64 (line 263); the
\* metadata literals are Int32 or text.
OutputSchema(env) ==
    [c \in Range(standard_columns) |->
        CASE c \in {"election_date", "contest_name", "option_name"} -> "Utf8"
          [] c = "precinct_id" -> "Int64"
          [] c = "ward" -> IF env.ward_col = "None" THEN "Utf8" ELSE "Int64"
          [] c = "precinct" -> IF env.precinct_col = "None" THEN "Utf8" ELSE "Int64"
          [] c = "option_percent" -> "Float64"
          [] OTHER -> "Int32"]

\* lines 100-295.  file is [cols, rows, melt_raises]: the table read_csv
\* returned and whether the library's melt raises on it.
process_csv_file(file, contest_id) ==
    LET df == Frame(file.cols, file.rows)
    IN  IF Height(df) = 0 THEN ReturnNone("empty")
        ELSE IF "precinct_id" \notin Range(df.cols) THEN ReturnNone("no precinct_id")
        ELSE LET env == IF IsTurnout(df.cols) THEN TurnoutBranch(df)
                        ELSE OptionsBranch(df, file.melt_raises)
                 out == Standardize(env, contest_id)
                 ret == IF env.returned THEN ReturnNone(env.log)
                        ELSE IF out.st # "frame" THEN ReturnNone("exception")
                        ELSE ReturnFrame(out, OutputSchema(env))
             IN  IF IsTurnout(df.cols) THEN [ret EXCEPT !.strategy = "turnout"]
                 ELSE [ret EXCEPT !.strategy = "options",
                                  !.option_cols = OptionCols(df.cols)]

(***************************************************************************)
(* The tables process_csv_file is applied to (specification SpecReshape).  *)
(***************************************************************************)
\* largest number of rows of a CSV table
MaxCsvRows == 2

IdleG ==
    /\ precinct_geometries = <<>>
    /\ lastImport = NoImport
    /\ tieBreak = "first"
    /\ astypeNull = "text"

\* The column lists: with or without each of precinct_id, ward and precinct,
\* total, the registration columns, the candidates, the percentage columns.
CsvColumnLists ==
    {a \o b \o c \o d \o e \o f :
        a \in {<<>>, <<"precinct_id">>},
        b \in {<<>>, <<"ward", "precinct">>},
        c \in {<<>>, <<"total">>},
        d \in {<<>>, <<"registered">>, <<"registered", "ballots">>,
               <<"registered", "ballots", "turnout">>, <<"registered", "turnout">>},
        e \in {<<>>, <<"Smith">>, <<"Smith", "Jones">>},
        f \in {<<>>, <<"Smith Percent">>, <<"Smith Percent", "Jones Percent">>,
               <<"Percent">>}}

CsvColumns ==
    <<"precinct_id", "ward", "precinct", "total", "registered", "ballots", "turnout",
      "Smith", "Jones", "Smith Percent", "Jones Percent", "Percent">>

ColumnNumber(c) == CHOOSE k \in 1..Len(CsvColumns) : CsvColumns[k] = c

\* The cell of column c in row i: every cell of a table differs from the
\* others, except the precinct_id of a table that repeats its precincts and
\* the cell that hole empties.
Cell(c, i, repeated, hole) ==
    IF c = "precinct_id" THEN (IF repeated THEN 1001 ELSE 1000 + i)
    ELSE IF i = 1 /\ c = hole THEN Null
    ELSE 10 * ColumnNumber(c) + i

CsvTable(cols, n, repeated, hole, melt_raises) ==
    [cols |-> cols,
     rows |-> IF cols = <<>> THEN <<>>
              ELSE [i \in 1..n |-> [c \in Range(cols) |-> Cell(c, i, repeated, hole)]],
     melt_raises |-> melt_raises]

CsvTables ==
    {CsvTable(cols, n, repeated, hole, melt_raises) :
        cols \in CsvColumnLists, n \in 0..MaxCsvRows, repeated \in BOOLEAN,
        hole \in {"none", "Smith", "Smith Percent"}, melt_raises \in BOOLEAN}

NotCalled == [st |-> "pending", cols |-> <<>>, rows |-> <<>>, schema |-> NoSchema,
              log |-> "none", strategy |-> "none", option_cols |-> <<>>]

\* The call process_csv_file(csv_path, ...) of line 327.
ProcessCsvFile ==
    /\ reshaped.st = "pending"
    /\ reshaped' = process_csv_file(csv, 3)
    /\ UNCHANGED csv
    /\ UNCHANGED <<varsE, varsG, varsR, varsM, varsD, varsK>>

NextReshape == ProcessCsvFile

InitReshape ==
    /\ IdleE /\ IdleG /\ IdleR /\ IdleM /\ IdleD /\ IdleK
    /\ csv \in CsvTables
    /\ reshaped = NotCalled

SpecReshape == InitReshape /\ [][NextReshape]_vars


(***************************************************************************)
(* Claims about process_csv_file (specification SpecReshape).              *)
(***************************************************************************)
Called == reshaped.st \in {"none", "frame"}

NumCsvRows == Len(csv.rows)

HasColumn(c) == c \in Range(csv.cols)

\* C13: a table with the registration columns is reshaped into two rows per
\* input row: "registered" with the registered count and no percentage,
\* "ballots" with the ballots count and the turnout as percentage, both
\* without total_votes.
C13_TurnoutTwoRowsPerInput ==
    (/\ Called
     /\ {"precinct_id", "registered", "ballots", "turnout"} \subseteq Range(csv.cols)
     /\ NumCsvRows > 0)
    => /\ reshaped.st = "frame"
       /\ Len(reshaped.rows) = 2 * NumCsvRows
       /\ \A i \in 1..NumCsvRows :
             /\ \E j \in 1..Len(reshaped.rows) :
                   /\ reshaped.rows[j]["precinct_id"] = csv.rows[i]["precinct_id"]
                   /\ reshaped.rows[j]["option_name"] = "registered"
                   /\ reshaped.rows[j]["option_votes"] = csv.rows[i]["registered"]
                   /\ reshaped.rows[j]["option_percent"] = Null
                   /\ reshaped.rows[j]["total_votes"] = Null
             /\ \E j \in 1..Len(reshaped.rows) :
                   /\ reshaped.rows[j]["precinct_id"] = csv.rows[i]["precinct_id"]
                   /\ reshaped.rows[j]["option_name"] = "ballots"
                   /\ reshaped.rows[j]["option_votes"] = csv.rows[i]["ballots"]
                   /\ reshaped.rows[j]["option_percent"] = csv.rows[i]["turnout"]
                   /\ reshaped.rows[j]["total_votes"] = Null


\* The candidate columns of the table, and the percentage column of each.
Candidates == {c \in Range(csv.cols) : c \in {"Smith", "Jones"}}

SidecarOf(o) == IF o = "Smith" THEN "Smith Percent" ELSE "Jones Percent"

\* An empty cell counts as 0.
CellValue(v) == IF v = Null THEN 0 ELSE v

UniquePrecincts ==
    \A i, j \in 1..NumCsvRows :
        csv.rows[i]["precinct_id"] = csv.rows[j]["precinct_id"] => i = j

OptionsInput ==
    /\ HasColumn("precinct_id")
    /\ ~(HasColumn("registered") /\ HasColumn("turnout"))
    /\ NumCsvRows > 0

\* C14: an options table with r rows of distinct precinct_id and k option
\* columns is reshaped into r*k rows, exactly one per input row and option
\* column; the row carries the cell as option_votes, the cell of
\* "<option> Percent" of the same precinct as option_percent (0 when the table
\* has no such column), and the row's total as total_votes when the table has
\* a total column.
C14_OneRowPerCell ==
    (/\ Called /\ OptionsInput /\ UniquePrecincts
     /\ Candidates # {} /\ ~csv.melt_raises)
    => /\ reshaped.st = "frame"
       /\ Len(reshaped.rows) = NumCsvRows * Cardinality(Candidates)
       /\ \A i \in 1..NumCsvRows : \A o \in Candidates :
             /\ Cardinality({j \in 1..Len(reshaped.rows) :
                   /\ reshaped.rows[j]["precinct_id"] = csv.rows[i]["precinct_id"]
                   /\ reshaped.rows[j]["option_name"] = o}) = 1
             /\ \E j \in 1..Len(reshaped.rows) :
                   /\ reshaped.rows[j]["precinct_id"] = csv.rows[i]["precinct_id"]
                   /\ reshaped.rows[j]["option_name"] = o
                   /\ reshaped.rows[j]["option_votes"] = CellValue(csv.rows[i][o])
                   /\ reshaped.rows[j]["option_percent"] =
                         IF HasColumn(SidecarOf(o))
                           THEN CellValue(csv.rows[i][SidecarOf(o)])
                           ELSE 0
                   /\ HasColumn("total") =>
                         reshaped.rows[j]["total_votes"] = csv.rows[i]["total"]

\* Two precincts and two candidates, one of them with a percentage column,
\* and a total column: four rows came out.
C14_TwoByTwoReshaped ==
    /\ csv.cols = <<"precinct_id", "total", "Smith", "Jones", "Smith Percent">>
    /\ NumCsvRows = 2
    /\ UniquePrecincts
    /\ reshaped.st = "frame"
    /\ Len(reshaped.rows) = 4
    /\ \E j \in 1..4 : reshaped.rows[j]["option_percent"] > 0


\* The columns that are neither reserved nor excluded by the names in excluded.
OptionColumnsBut(excluded) ==
    {c \in Range(csv.cols) :
        /\ c \notin {"precinct_id", "ward", "precinct", "total",
                     "registered", "ballots", "turnout"}
        /\ c \notin excluded}

Classified == Called /\ HasColumn("precinct_id") /\ NumCsvRows > 0

\* The turnout strategy is taken exactly when the table has both a registered
\* and a turnout column; otherwise the options strategy is taken with the
\* given option columns, and a table without any is rejected with no records.
ClassifiedWith(option_columns) ==
    Classified =>
       /\ reshaped.strategy = "turnout" <=>
             (HasColumn("registered") /\ HasColumn("turnout"))
       /\ reshaped.strategy # "turnout" =>
             /\ reshaped.strategy = "options"
             /\ Range(reshaped.option_cols) = option_columns
             /\ option_columns = {} =>
                   /\ reshaped.st = "none"
                   /\ reshaped.log = "no option columns"
                   /\ reshaped.rows = <<>>

\* C15 as stated: the option columns are the columns outside the reserved set
\* that do not have the form "<name> Percent".
C15_OptionColumnsButNamePercent ==
    ClassifiedWith(OptionColumnsBut({"Smith Percent", "Jones Percent"}))

\* C15, amended: the option columns are the columns outside the reserved set
\* whose name does not end in "Percent", with or without a name before it.
C15_OptionColumnsButPercentSuffix ==
    ClassifiedWith(OptionColumnsBut({"Smith Percent", "Jones Percent", "Percent"}))

\* A table with a column named just "Percent" beside a candidate was
\* classified options with the candidate as its only option column.
C15_BarePercentColumn ==
    /\ Classified
    /\ HasColumn("Percent") /\ HasColumn("Smith") /\ ~HasColumn("Jones")
    /\ reshaped.strategy = "options"
    /\ reshaped.option_cols = <<"Smith">>
    /\ reshaped.st = "frame"


\* C16: every table process_csv_file returns has the thirteen canonical
\* columns, in the canonical order, and every row has a cell for each of them
\* and for no other column.
C16_CanonicalColumns ==
    reshaped.st = "frame" =>
       /\ reshaped.cols =
             <<"result_id", "year", "election_date", "election_id", "contest_id",
               "contest_name", "precinct_id", "ward", "precinct", "total_votes",
               "option_name", "option_votes", "option_percent">>
       /\ \A j \in 1..Len(reshaped.rows) :
             DOMAIN reshaped.rows[j] =
                {"result_id", "year", "election_date", "election_id", "contest_id",
                 "contest_name", "precinct_id", "ward", "precinct", "total_votes",
                 "option_name", "option_votes", "option_percent"}

\* A table with neither ward, precinct, total nor percentage columns was
\* returned with the columns it lacked filled in.
C16_BareTableReturned ==
    /\ csv.cols = <<"precinct_id", "Smith">>
    /\ reshaped.st = "frame"
    /\ Len(reshaped.rows) = 2
    /\ reshaped.rows[1]["ward"] = Null
    /\ reshaped.rows[1]["year"] = 2020
    /\ reshaped.rows[1]["contest_id"] = 3


(***************************************************************************)
(* import_elections.py, process_directory (lines 297-369): the loop over   *)
(* the CSV files of one directory and the concatenation of what they       *)
(* returned (specification SpecDirectory).                                 *)
(***************************************************************************)
\* largest number of files in a directory
MaxFiles == 3

\* The CSV files a directory may hold, by what is in them.
FileKinds ==
    {"with_ward", "bare", "empty", "no_precinct_id", "no_options", "turnout",
     "melt_error", "repeated"}

FileTable(kind) ==
    CASE kind = "with_ward" ->
           CsvTable(<<"precinct_id", "ward", "precinct", "Smith">>, 1, FALSE, "none", FALSE)
      [] kind = "bare" ->
           CsvTable(<<"precinct_id", "Smith", "Smith Percent">>, 2, FALSE, "none", FALSE)
      [] kind = "empty" ->
           CsvTable(<<"precinct_id", "Smith">>, 0, FALSE, "none", FALSE)
      [] kind = "no_precinct_id" ->
           CsvTable(<<"ward", "precinct", "Smith">>, 1, FALSE, "none", FALSE)
      [] kind = "no_options" ->
           CsvTable(<<"precinct_id", "ward", "precinct", "total">>, 1, FALSE, "none", FALSE)
      [] kind = "turnout" ->
           CsvTable(<<"precinct_id", "ward", "precinct", "registered", "ballots",
                      "turnout">>, 1, FALSE, "none", FALSE)
      [] kind = "melt_error" ->
           CsvTable(<<"precinct_id", "Smith">>, 1, FALSE, "none", TRUE)
      [] OTHER ->
           CsvTable(<<"precinct_id", "Smith", "Smith Percent">>, 2, TRUE, "none", FALSE)

\* A file is [numeric: whether the name before ".csv" is all digits, kind];
\* the file at position k of the listing is named k.csv when numeric.
DirFiles ==
    {[numeric |-> TRUE, kind |-> kind] : kind \in FileKinds}
       \cup {[numeric |-> FALSE, kind |-> "with_ward"]}

FileLists == UNION {[1..n -> DirFiles] : n \in 0..MaxFiles}

\* line 350: pl.concat(all_results) (vertical): frames that differ in their
\* column names or column types raise.
RECURSIVE ConcatRows(_, _)
ConcatRows(frames, k) ==
    IF k > Len(frames) THEN <<>> ELSE frames[k].rows \o ConcatRows(frames, k + 1)

ConcatAll(frames) ==
    IF \E k \in 1..Len(frames) :
          frames[k].cols # frames[1].cols \/ frames[k].schema # frames[1].schema
      THEN Raised
      ELSE Frame(frames[1].cols, ConcatRows(frames, 1))

Looping ==
    /\ directory.in_metadata
    /\ dirRun.returned = "running"
    /\ dirRun.ix <= Len(directory.files)

\* lines 302-304
NotInMetadata ==
    /\ ~directory.in_metadata
    /\ dirRun.returned = "running"
    /\ dirRun' = [dirRun EXCEPT !.returned = "none"]
    /\ UNCHANGED directory
    /\ UNCHANGED <<varsE, varsG, varsR, varsM, varsW, varsK>>

\* lines 321-326: a name that is not a number is skipped and not counted.
SkipFile ==
    /\ Looping
    /\ ~directory.files[dirRun.ix].numeric
    /\ dirRun' = [dirRun EXCEPT !.ix = @ + 1]
    /\ UNCHANGED directory
    /\ UNCHANGED <<varsE, varsG, varsR, varsM, varsW, varsK>>

\* A loop that gives the directory up at the first file that fails.
ProcessFile_abort ==
    /\ Looping
    /\ directory.files[dirRun.ix].numeric
    /\ LET results_df == process_csv_file(FileTable(directory.files[dirRun.ix].kind),
                                          dirRun.ix)
       IN  IF results_df.st = "frame" /\ Len(results_df.rows) > 0
             THEN dirRun' = [dirRun EXCEPT !.ix = @ + 1,
                                           !.all_results = Append(@, results_df),
                                           !.success_count = @ + 1]
             ELSE dirRun' = [dirRun EXCEPT !.returned = "none", !.error_count = @ + 1]
    /\ UNCHANGED directory
    /\ UNCHANGED <<varsE, varsG, varsR, varsM, varsW, varsK>>

\* lines 328-342: one numerically named file: process_csv_file, and the tally.
ProcessFile ==
    /\ Looping
    /\ directory.files[dirRun.ix].numeric
    /\ LET results_df == process_csv_file(FileTable(directory.files[dirRun.ix].kind),
                                          dirRun.ix)
       IN  IF results_df.st = "frame" /\ Len(results_df.rows) > 0
             THEN dirRun' = [dirRun EXCEPT !.ix = @ + 1,
                                           !.all_results = Append(@, results_df),
                                           !.success_count = @ + 1]
             ELSE dirRun' = [dirRun EXCEPT !.ix = @ + 1, !.error_count = @ + 1]
    /\ UNCHANGED directory
    /\ UNCHANGED <<varsE, varsG, varsR, varsM, varsW, varsK>>

\* lines 344-365: the frames are concatenated and returned; None when there
\* are none or the concatenation raises.
Combine ==
    /\ directory.in_metadata
    /\ dirRun.returned = "running"
    /\ dirRun.ix > Len(directory.files)
    /\ LET combined_results == ConcatAll(dirRun.all_results)
       IN  IF dirRun.all_results # <<>> /\ combined_results.st = "frame"
             THEN dirRun' = [dirRun EXCEPT !.returned = "frame",
                                           !.combined = combined_results.rows]
             ELSE dirRun' = [dirRun EXCEPT !.returned = "none"]
    /\ UNCHANGED directory
    /\ UNCHANGED <<varsE, varsG, varsR, varsM, varsW, varsK>>

NextDirectory == NotInMetadata \/ SkipFile \/ ProcessFile \/ Combine

InitDirectory ==
    /\ IdleE /\ IdleG /\ IdleR /\ IdleM /\ IdleW /\ IdleK
    /\ directory \in [in_metadata : BOOLEAN, files : FileLists]
    /\ dirRun = [NoDirRun EXCEPT !.ix = 1, !.returned = "running"]

SpecDirectory == InitDirectory /\ [][NextDirectory]_vars

(***************************************************************************)
(* Claims about process_directory (specification SpecDirectory).           *)
(***************************************************************************)
LoopDone == directory.in_metadata /\ dirRun.ix > Len(directory.files)

NumericFiles == {k \in 1..Len(directory.files) : directory.files[k].numeric}

\* The files process_csv_file cannot turn into records.
Unprocessable(k) ==
    directory.files[k].kind \in
       {"empty", "no_precinct_id", "no_options", "turnout", "melt_error", "repeated"}

\* The frames in all_results that hold the records of file k.
FramesOf(k) ==
    {j \in 1..Len(dirRun.all_results) :
        \E i \in 1..Len(dirRun.all_results[j].rows) :
            dirRun.all_results[j].rows[i]["contest_id"] = k}

\* C17: a file that fails does not end the loop: once the loop is over every
\* numerically named file has been counted as a success or an error, a file
\* that failed has no records among the results and every other numerically
\* named file, before or after it, has.
C17_FileFailureKeepsDirectory ==
    /\ dirRun.returned \in {"frame", "none"} /\ directory.in_metadata => LoopDone
    /\ LoopDone =>
          /\ dirRun.success_count + dirRun.error_count = Cardinality(NumericFiles)
          /\ Len(dirRun.all_results) = dirRun.success_count
          /\ \A k \in NumericFiles :
                /\ Unprocessable(k) => FramesOf(k) = {}
                /\ ~Unprocessable(k) => Cardinality(FramesOf(k)) = 1

\* A directory whose first file failed and whose later file was processed.
C17_LaterFileProcessed ==
    /\ LoopDone
    /\ Len(directory.files) >= 2
    /\ directory.files[1].numeric /\ Unprocessable(1)
    /\ dirRun.error_count >= 1
    /\ dirRun.success_count >= 1
    /\ \E k \in NumericFiles : k > 1 /\ FramesOf(k) # {}

\* C16: every table process_csv_file returned for a file of the directory has
\* the canonical columns in the canonical order, and the tables of the
\* directory's files are concatenated into the directory's result.
C16_FileTablesConcatenate ==
    /\ \A j \in 1..Len(dirRun.all_results) :
          dirRun.all_results[j].cols =
             <<"result_id", "year", "election_date", "election_id", "contest_id",
               "contest_name", "precinct_id", "ward", "precinct", "total_votes",
               "option_name", "option_votes", "option_percent">>
    /\ (dirRun.returned # "running" /\ dirRun.all_results # <<>>) =>
          /\ dirRun.returned = "frame"
          /\ Len(dirRun.combined) > 0


(***************************************************************************)
(* create_precinct_id.py, process_csv (lines 53-62): the precinct_id of a  *)
(* row, for every ward and precinct number the two widths can hold         *)
(* (specification SpecCanon).                                              *)
(***************************************************************************)
\* line 57: str.zfill(2)
WardWidth == 2
\* line 58: str.zfill(3)
PrecinctWidth == 3

RECURSIVE Pow10(_)
Pow10(n) == IF n = 0 THEN 1 ELSE 10 * Pow10(n - 1)

\* The ward and precinct numbers that fit their width, and a missing value.
Wards == 0..(Pow10(WardWidth) - 1)

Precincts == 0..(Pow10(PrecinctWidth) - 1)

\* A precinct_id that leaves the numbers unpadded.
CanonicalId_unpadded(ward, precinct) ==
    IF ward = Null \/ precinct = Null THEN NullId
    ELSE NumStr(ward) \o NumStr(precinct)

\* lines 53-62: both present: the ward as integer, as text, zfilled to 2,
\* followed by the precinct as integer, as text, zfilled to 3; otherwise None.
CanonicalId(ward, precinct) ==
    IF ward = Null \/ precinct = Null THEN NullId
    ELSE ZFill(NumStr(ward), WardWidth) \o ZFill(NumStr(precinct), PrecinctWidth)

\* lines 53-62: df.with_columns(... .alias('precinct_id')) for one row.
CreatePrecinctId ==
    /\ canon.st = "pending"
    /\ canon' = [st |-> "created", precinct_id |-> CanonicalId(wp.ward, wp.precinct)]
    /\ UNCHANGED wp
    /\ UNCHANGED <<varsE, varsG, varsR, varsM, varsW, varsD>>

NextCanon == CreatePrecinctId

InitCanon ==
    /\ IdleE /\ IdleG /\ IdleR /\ IdleM /\ IdleW /\ IdleD
    /\ wp \in [ward : Wards \cup {Null}, precinct : Precincts \cup {Null}]
    /\ canon = [st |-> "pending", precinct_id |-> <<>>]

SpecCanon == InitCanon /\ [][NextCanon]_vars

(***************************************************************************)
(* Claims about the precinct_id (specification SpecCanon).                 *)
(***************************************************************************)
DigitValue(c) == CHOOSE d \in 0..9 : DigitChar(d) = c

\* The number a string of digits denotes.
RECURSIVE ParseDigits(_)
ParseDigits(s) ==
    IF s = <<>> THEN 0
    ELSE 10 * ParseDigits(SubSeq(s, 1, Len(s) - 1)) + DigitValue(s[Len(s)])

\* C20: for a ward in 0..99 and a precinct in 0..999 the precinct_id has
\* exactly 5 characters, all digits, and its first 2 and last 3 characters
\* read as numbers are the ward and the precinct; so no two rows that differ
\* in ward or precinct get the same precinct_id.
C20_FiveCharsRoundTrip ==
    (/\ canon.st = "created"
     /\ wp.ward \in 0..99
     /\ wp.precinct \in 0..999)
    => /\ Len(canon.precinct_id) = 5
       /\ \A i \in 1..5 : canon.precinct_id[i] \in Digits
       /\ ParseDigits(SubSeq(canon.precinct_id, 1, 2)) = wp.ward
       /\ ParseDigits(SubSeq(canon.precinct_id, 3, 5)) = wp.precinct

\* Ward 7, precinct 42 became "07042".
C20_PaddedBothParts ==
    /\ canon.st = "created"
    /\ wp = [ward |-> 7, precinct |-> 42]
    /\ canon.precinct_id = <<"0", "7", "0", "4", "2">>

(***************************************************************************)
(* The width normalisation of import_precinct_geojson (lines 58-69) on     *)
(* every table of up to MaxNormRows resolved identifiers (specification    *)
(* SpecNormalize).                                                         *)
(***************************************************************************)
\* largest number of rows of the table normalised
MaxNormRows == 3

\* Resolved identifiers: four digits, three digits, five digits, four
\* characters with a letter, and the empty string.
NormInputIds ==
    {Id1001, <<"1", "0", "1">>, Id01001, <<"A", "1", "0", "1">>, <<>>}

\* lines 58-69: gdf["precinct_id"] is replaced by its normalisation.
NormalizeIds ==
    /\ stage = "normalize"
    /\ LET ids == Normalize([i \in 1..Len(gdf) |-> gdf[i].precinct_id], tieBreak)
       IN  gdf' = [i \in 1..Len(gdf) |-> [gdf[i] EXCEPT !.precinct_id = ids[i]]]
    /\ stage' = "normalized"
    /\ UNCHANGED gdf0
    /\ UNCHANGED <<varsE, varsG, varsM, varsW, varsD, varsK>>

NextNormalize == NormalizeIds

InitNormalize ==
    /\ IdleE /\ IdleM /\ IdleW /\ IdleD /\ IdleK
    /\ precinct_geometries = <<>>
    /\ lastImport = NoImport
    /\ tieBreak \in {"first", "last"}
    /\ astypeNull = "text"
    /\ \E k \in 1..MaxNormRows : \E ids \in [1..k -> NormInputIds] :
          gdf0 = [i \in 1..k |-> [precinct_id |-> ids[i], geometry |-> i]]
    /\ gdf = gdf0
    /\ stage = "normalize"

SpecNormalize == InitNormalize /\ [][NextNormalize]_vars

(***************************************************************************)
(* Claims about the width normalisation (specification SpecNormalize).     *)
(***************************************************************************)
Numeric(s) == Len(s) > 0 /\ \A i \in 1..Len(s) : s[i] \in Digits

\* t is s with zeros on its left up to five characters.
PaddedTo5(s, t) ==
    /\ Len(t) = 5
    /\ \A i \in 1..(5 - Len(s)) : t[i] = "0"
    /\ \A i \in 1..Len(s) : t[5 - Len(s) + i] = s[i]

NumOfLength(l) == Cardinality({i \in 1..Len(gdf0) : Len(gdf0[i].precinct_id) = l})

\* C21 as stated: each identifier that is numeric and shorter than 5
\* characters leaves the normalisation padded to 5, whatever the other
\* identifiers of the table are, and an identifier that is not numeric
\* leaves it unchanged.
C21_EachShortNumericPadded ==
    stage = "normalized" =>
       \A i \in 1..Len(gdf0) :
          /\ (Numeric(gdf0[i].precinct_id) /\ Len(gdf0[i].precinct_id) < 5) =>
                PaddedTo5(gdf0[i].precinct_id, gdf[i].precinct_id)
          /\ ~Numeric(gdf0[i].precinct_id) =>
                gdf[i].precinct_id = gdf0[i].precinct_id

\* The table is one the normalisation applies to: some identifier is shorter
\* than 5 and all are numeric.
ShortAndAllNumeric ==
    /\ \E i \in 1..Len(gdf0) : Len(gdf0[i].precinct_id) < 5
    /\ \A i \in 1..Len(gdf0) : Numeric(gdf0[i].precinct_id)

AllPadded ==
    \A i \in 1..Len(gdf0) :
        IF Len(gdf0[i].precinct_id) < 5
          THEN PaddedTo5(gdf0[i].precinct_id, gdf[i].precinct_id)
          ELSE gdf[i].precinct_id = gdf0[i].precinct_id

NoneChanged == \A i \in 1..Len(gdf0) : gdf[i].precinct_id = gdf0[i].precinct_id

\* What lines 58-69 guarantee in place of C21: the normalisation is decided
\* for the table as a whole.  When
\* some identifier is shorter than 5, all identifiers are numeric and 4 is
\* the most frequent length, every identifier shorter than 5 is padded to 5;
\* when the table is not of that kind, or another length is more frequent
\* than 4, no identifier is changed; when 4 shares the highest frequency with
\* another length, the table is either padded as a whole or left as a whole.
C21_PaddedWhenMostlyFourDigits ==
    stage = "normalized" =>
       /\ Len(gdf) = Len(gdf0)
       /\ AllPadded \/ NoneChanged
       /\ (ShortAndAllNumeric /\ \A l \in {0, 1, 2, 3, 5} : NumOfLength(l) < NumOfLength(4))
             => AllPadded
       /\ (~ShortAndAllNumeric \/ \E l \in {0, 1, 2, 3, 5} : NumOfLength(l) > NumOfLength(4))
             => NoneChanged

\* A table of two four-digit identifiers and a five-digit one was padded.
C21_MostlyFourDigitsPadded ==
    /\ stage = "normalized"
    /\ Len(gdf0) = 3
    /\ gdf0[1].precinct_id = Id1001 /\ gdf0[2].precinct_id = Id1001
    /\ gdf0[3].precinct_id = Id01001
    /\ gdf[1].precinct_id = Id01001

(***************************************************************************)
(* Claim about the surrogate ids of the boundary store (specification      *)
(* SpecGeo).                                                               *)
(***************************************************************************)
GeometryIds(tbl) == {tbl[i].precinct_geometry_id : i \in 1..Len(tbl)}

\* The largest id of a table, 0 for the empty table.
LargestId(tbl) ==
    IF tbl = <<>> THEN 0
    ELSE CHOOSE m \in GeometryIds(tbl) : \A k \in GeometryIds(tbl) : k <= m

PairwiseDistinctIds(tbl) ==
    \A i, j \in 1..Len(tbl) :
        i # j => tbl[i].precinct_geometry_id # tbl[j].precinct_geometry_id

\* C22: whatever imports came before, re-imports of a valid_from_year
\* included, an import leaves the precinct_geometry_id values of the store
\* pairwise distinct, and the n rows it appends carry the ids m+1 .. m+n,
\* where m is the largest id of the store as it was before the import deleted
\* the old rows of the vintage.
C22_FreshContiguousIds ==
    [][LET n == lastImport'.inserted
           m == LargestId(precinct_geometries)
           len == Len(precinct_geometries')
       IN  /\ PairwiseDistinctIds(precinct_geometries')
           /\ n <= len
           /\ \A i \in 1..n :
                 precinct_geometries'[len - n + i].precinct_geometry_id = m + i
           /\ \A i \in 1..(len - n) :
                 precinct_geometries'[i].precinct_geometry_id <= m]_vars

\* A vintage was imported over its own old rows while rows of another
\* vintage, with ids between the deleted and the new ones, stayed.
C22_ReimportBesideSurvivors ==
    /\ lastImport.deleted > 0
    /\ lastImport.inserted > 0
    /\ Len(precinct_geometries) > lastImport.inserted
    /\ \E i \in 1..Len(precinct_geometries) :
          /\ precinct_geometries[i].valid_from_year # lastImport.valid_from_year
          /\ precinct_geometries[i].precinct_geometry_id > 1
    /\ 1 \notin GeometryIds(precinct_geometries)

(***************************************************************************)
(* Claim about the order of the appends of the loader (specification       *)
(* Spec).                                                                  *)
(***************************************************************************)
\* C23: rows are in election_results only once every worker has returned
\* (none while the workers run, and no worker is pending while the save loop
\* runs), the save loop has appended rows of no directory after the one it is
\* at, and for two directories d1 < d2 every result_id of a row of d1 is
\* smaller than every result_id of a row of d2, in whatever order the workers
\* returned.
C23_DirectoryOrderIsIdOrder ==
    /\ pc = "map" => election_results = <<>>
    /\ pc \in {"loop", "insert", "update"} =>
          /\ \A d \in Dirs : results[d].st # "pending"
          /\ \A k \in 1..NumResults : election_results[k].election_id <= dirIx
    /\ \A j, k \in 1..NumResults :
          election_results[j].election_id < election_results[k].election_id =>
             election_results[j].result_id < election_results[k].result_id

\* A first run has ended with the rows of the first and of the last
\* directory appended, each in more than one batch.
C23_TwoDirectoriesInBatches ==
    /\ runs = 1
    /\ pc = "done"
    /\ results[1].n > BatchSize
    /\ results[NumDirs].n > BatchSize
    /\ Cardinality(RowsOfDir(1)) = results[1].n
    /\ Cardinality(RowsOfDir(NumDirs)) = results[NumDirs].n

Init ==
    /\ InitElections
    /\ precinct_geometries = <<>>
    /\ lastImport = NoImport
    /\ tieBreak = "first"
    /\ astypeNull = "text"
    /\ gdf = <<>>
    /\ gdf0 = <<>>
    /\ stage = "idle"
    /\ IdleM /\ IdleW /\ IdleD /\ IdleK

Spec == Init /\ [][NextElections]_vars

====
